---- MODULE Spec2Model ----
(***************************************************************************)
(* A model of 0x02-redis_basic: exercise.py (Cache, call_history) and      *)
(* web.py (cache_expiration, get_page), both talking to the same default   *)
(* Redis database (redis.Redis() with no arguments, db 0 on localhost).    *)
(*                                                                         *)
(* Byte strings and Python strings are TLA+ strings; a Python value is a   *)
(* record carrying its type, so that encoding to bytes and decoding back   *)
(* are visible.  A Redis entry is a record with its kind (none, string,    *)
(* list), its payload and its remaining time-to-live in seconds (-1: no    *)
(* expiry).  Every client call is split at the Redis round trips it makes. *)
(***************************************************************************)
EXTENDS Integers, Sequences, FiniteSets, TLC

VARIABLES
    db,      \* the Redis database: key -> entry
    pc,      \* per client: the position inside the call it is running
    arg,     \* per client: the argument of the running call (data or url)
    out,     \* per client: the local `output` / `page_content`
    ret,     \* per client: what the last completed call returned or raised
    op,      \* per client: the operation of the running / last call
    idx,     \* per client: position of the running call in its history
    nkeys,   \* number of uuid4 keys generated so far
    ncalls,  \* number of Cache.store and get_page calls started so far
    slog,    \* history of the Cache.store calls since the last flush
    flog,    \* per url: history of the get_page calls since the last flush
    since,   \* per url: seconds since the last SETEX of its page
    dirty    \* per url: a call for another url wrote one of its keys

vars == <<db, pc, arg, out, ret, op, idx, nkeys, ncalls,
          slog, flog, since, dirty>>

-----------------------------------------------------------------------------
(* Bounds of the model *)

\* calls of Cache.store and of get_page started in one run
MaxCalls == 3
\* seconds the server clock advances in one step
TickSeconds == 5

(* Program constants *)

EXPIRATION == 10

-----------------------------------------------------------------------------
(* Python values *)

PyStr(s) == [t |-> "str", s |-> s, n |-> 0, f |-> 0]
PyBytes(s) == [t |-> "bytes", s |-> s, n |-> 0, f |-> 0]
PyInt(n) == [t |-> "int", s |-> "", n |-> n, f |-> 0]
PyFloat(n, f) == [t |-> "float", s |-> "", n |-> n, f |-> f]
PyNone == [t |-> "NoneType", s |-> "", n |-> 0, f |-> 0]
Raise(e) == [t |-> "raise", s |-> e, n |-> 0, f |-> 0]

Digit == <<"0", "1", "2", "3", "4", "5", "6", "7", "8", "9">>

RECURSIVE NatStr(_)
NatStr(n) == IF n < 10 THEN Digit[n + 1]
             ELSE NatStr(n \div 10) \o Digit[(n % 10) + 1]

\* repr() of an int
IntStr(n) == IF n < 0 THEN "-" \o NatStr(0 - n) ELSE NatStr(n)

\* The largest integer the decimal parser is asked about in this model.
MaxInt == 50

\* Parsing of a canonical decimal integer (int(b"..."), Redis string2ll):
\* IsInt(s) when s is the decimal rendering of a number, which ParseInt(s)
\* then is.
Decimal == [n \in (0 - MaxInt)..MaxInt |-> IntStr(n)]
IsInt(s) == \E n \in DOMAIN Decimal : Decimal[n] = s
ParseInt(s) == CHOOSE n \in DOMAIN Decimal : Decimal[n] = s

\* repr() of a value, as str() of a tuple renders its members
Repr(v) == CASE v.t = "str" -> "'" \o v.s \o "'"
             [] v.t = "bytes" -> "b'" \o v.s \o "'"
             [] v.t = "int" -> IntStr(v.n)
             [] v.t = "float" -> IntStr(v.n) \o "." \o NatStr(v.f)
             [] OTHER -> "None"

\* str() of a tuple of at most one member: "()" or "(x,)"
TupleStr(args) == IF Len(args) = 0 THEN "()"
                  ELSE "(" \o Repr(args[1]) \o ",)"

\* str() of a value
Str(v) == IF v.t = "str" THEN v.s ELSE Repr(v)

\* redis-py's Encoder.encode: the bytes sent for a value, or no encoding
Encodable(v) == v.t \in {"str", "bytes", "int", "float"}
Encode(v) == CASE v.t = "str" -> v.s
               [] v.t = "bytes" -> v.s
               [] v.t = "int" -> IntStr(v.n)
               [] v.t = "float" -> IntStr(v.n) \o "." \o NatStr(v.f)
               [] OTHER -> ""

\* bytes.decode("utf-8")
Decode(b) == PyStr(b.s)

\* truth value of an object, as `if x:` tests it
Truthy(v) == CASE v.t = "NoneType" -> FALSE
               [] v.t \in {"str", "bytes"} -> v.s # ""
               [] v.t = "int" -> v.n # 0
               [] v.t = "float" -> v.n # 0 \/ v.f # 0
               [] OTHER -> TRUE

-----------------------------------------------------------------------------
(* Inputs *)

\* the clients of the database, and those that make calls in Spec: one
\* flow of control, one call at a time
Clients == {"a", "b"}
Callers == {"a"}

\* data handed to Cache.store; None stands for any value of a type that
\* redis-py refuses to encode
Values == {PyStr("cat"), PyInt(42), PyNone}

\* text the fetched function returns: an empty body, and a body that
\* happens to be a number
Contents == {"", "7"}

URLS == {"u1", "count:u1"}

QualName == "Cache.store"
InputsKey == QualName \o ":inputs"
OutputsKey == QualName \o ":outputs"
CountKey(url) == "count:" \o url

\* faulty variant: the key is generated once and used by every call
Uuid4Reused(i) == "k1"

\* str(uuid.uuid4()): the i-th identifier generated; never repeats
Uuid4(i) == "k" \o NatStr(i)
UuidKeys == {Uuid4(i) : i \in 1..(MaxCalls + 1)}

AllKeys == UuidKeys \cup {InputsKey, OutputsKey} \cup URLS
           \cup {CountKey(u) : u \in URLS}

-----------------------------------------------------------------------------
(* The Redis server *)

NoEntry == [kind |-> "none", str |-> "", list |-> <<>>, ttl |-> -1]
StrEntry(b, ttl) == [kind |-> "string", str |-> b, list |-> <<>>, ttl |-> ttl]
ListEntry(l) == [kind |-> "list", str |-> "", list |-> l, ttl |-> -1]

EmptyDb == [k \in AllKeys |-> NoEntry]

WrongType == Raise("ResponseError")

\* GET key: the bytes, nil, or WRONGTYPE on a list
RedisGet(d, k) == CASE d[k].kind = "none" -> PyNone
                    [] d[k].kind = "string" -> PyBytes(d[k].str)
                    [] OTHER -> WrongType

\* SET key value: overwrites whatever is there and clears the expiry
RedisSet(d, k, b) == [d EXCEPT ![k] = StrEntry(b, -1)]

\* SETEX key seconds value
RedisSetex(d, k, seconds, b) == [d EXCEPT ![k] = StrEntry(b, seconds)]

\* INCR key
IncrOk(d, k) == \/ d[k].kind = "none"
                \/ d[k].kind = "string" /\ IsInt(d[k].str)
RedisIncr(d, k) ==
    IF d[k].kind = "none" THEN [d EXCEPT ![k] = StrEntry("1", -1)]
    ELSE [d EXCEPT ![k].str = IntStr(ParseInt(d[k].str) + 1)]

\* RPUSH key value
RpushOk(d, k) == d[k].kind \in {"none", "list"}
RedisRpush(d, k, b) == [d EXCEPT ![k] = ListEntry(Append(d[k].list, b))]

\* LRANGE key 0 -1
RedisLrange(d, k) == d[k].list

\* faulty variant: only the data keys of Cache.store are deleted
RedisFlushData(d) ==
    [k \in DOMAIN d |-> IF k \in UuidKeys THEN NoEntry ELSE d[k]]

\* FLUSHDB
RedisFlushdb(d) == [k \in DOMAIN d |-> NoEntry]

\* Time passes on the server: expiries count down, expired keys go.
RedisTick(d, seconds) ==
    [k \in DOMAIN d |->
        IF d[k].ttl = -1 THEN d[k]
        ELSE IF d[k].ttl <= seconds THEN NoEntry
        ELSE [d[k] EXCEPT !.ttl = d[k].ttl - seconds]]

-----------------------------------------------------------------------------
(* Histories kept for the properties; the program does not read them *)

Pending == [t |-> "pending", s |-> "", n |-> 0, f |-> 0]

\* the part of the database that holds the data keys of Cache.store
DataState(d) == [k \in UuidKeys |-> d[k]]

\* one call of Cache.store: the data, the key generated, how far the call
\* got (pending, stored, ok, failed), and what the call found when it
\* started: the two recorded sequences, the data keys, the keys generated
StoreEntry(data, d, n) ==
    [data |-> data, key |-> "", st |-> "pending",
     ins |-> RedisLrange(d, InputsKey), outs |-> RedisLrange(d, OutputsKey),
     data0 |-> DataState(d), n0 |-> n]

\* one call of get_page: seconds since the last SETEX of the url when the
\* call did its GET (-1: no SETEX yet, -2: no GET yet), whether func was
\* invoked, what the call returned
FetchEntry == [since |-> -2, stub |-> 0, res |-> Pending]

NoUrlLog == [u \in URLS |-> <<>>]
NoClock == [u \in URLS |-> -1]
NotDirty == [u \in URLS |-> FALSE]

\* the running call of client p is still in the history (no flush since)
Logged(p) == idx[p] > 0

\* a call for url v writes key k: every other url owning k is disturbed
Disturb(v, k) ==
    [u \in URLS |-> dirty[u] \/ (u # v /\ k \in {u, CountKey(u)})]

Advance(clock, seconds) ==
    [u \in URLS |-> IF clock[u] < 0 THEN clock[u]
                    ELSE IF clock[u] + seconds >= EXPIRATION THEN EXPIRATION
                    ELSE clock[u] + seconds]

\* the call of client p returns or raises value v: its locals are gone
Return(p, v) ==
    /\ ret' = [ret EXCEPT ![p] = v]
    /\ pc' = [pc EXCEPT ![p] = "idle"]
    /\ arg' = [arg EXCEPT ![p] = PyNone]
    /\ out' = [out EXCEPT ![p] = PyNone]
    /\ idx' = [idx EXCEPT ![p] = 0]

\* client p starts a call and is at position l: nothing returned yet
Enter(p, l) ==
    /\ pc' = [pc EXCEPT ![p] = l]
    /\ ret' = [ret EXCEPT ![p] = Pending]

\* the call of client p goes on at position l
Goto(p, l) ==
    /\ pc' = [pc EXCEPT ![p] = l]
    /\ UNCHANGED ret

SlogSet(p, key, st) ==
    IF Logged(p) THEN [slog EXCEPT ![idx[p]].key = key, ![idx[p]].st = st]
    ELSE slog

-----------------------------------------------------------------------------
(* Initial state: one Cache has been constructed on an empty database *)

Init ==
    /\ db = EmptyDb
    /\ pc = [p \in Clients |-> "idle"]
    /\ arg = [p \in Clients |-> PyNone]
    /\ out = [p \in Clients |-> PyNone]
    /\ ret = [p \in Clients |-> PyNone]
    /\ op = [p \in Clients |-> "init"]
    /\ idx = [p \in Clients |-> 0]
    /\ nkeys = 0
    /\ ncalls = 0
    /\ slog = <<>>
    /\ flog = NoUrlLog
    /\ since = NoClock
    /\ dirty = NotDirty

-----------------------------------------------------------------------------
(* exercise.py *)

\* Cache.__init__: connect and FLUSHDB
CacheInit(p) ==
    /\ pc[p] = "idle"
    /\ db' = RedisFlushdb(db)
    /\ op' = [op EXCEPT ![p] = "init"]
    /\ ret' = [ret EXCEPT ![p] = PyNone]
    /\ idx' = [q \in Clients |-> 0]
    /\ slog' = <<>>
    /\ flog' = NoUrlLog
    /\ since' = NoClock
    /\ dirty' = NotDirty
    /\ UNCHANGED <<pc, arg, out, nkeys, ncalls>>

\* what call_history records for the positional arguments after self
WrapperInput(args) == TupleStr(args)

\* faulty variant: repr(output) is recorded instead of str(output)
WrapperOutputRepr(output) == Repr(output)

\* what call_history records for the value the method returned
WrapperOutput(output) == Str(output)

\* faulty variant: the input is not pushed before the method runs
RecordInputSkipped(d, args) == d

\* faulty variant: the input is pushed at the head of the list
RecordInputLpush(d, args) ==
    [d EXCEPT ![InputsKey] = ListEntry(<<WrapperInput(args)>> \o d[InputsKey].list)]

\* self._redis.rpush(inputs_key, str(args[1:]))
RecordInput(d, args) == RedisRpush(d, InputsKey, WrapperInput(args))

\* faulty variant: the output is pushed on the inputs list
RecordOutputWrongKey(d, output) ==
    RedisRpush(d, InputsKey, WrapperOutput(output))

\* self._redis.rpush(outputs_key, str(output))
RecordOutput(d, output) == RedisRpush(d, OutputsKey, WrapperOutput(output))

\* call_history.wrapper up to the call of the method: RPUSH of the inputs
StoreBegin(p, data) ==
    /\ pc[p] = "idle"
    /\ ncalls < MaxCalls
    /\ ncalls' = ncalls + 1
    /\ op' = [op EXCEPT ![p] = "store"]
    /\ IF RpushOk(db, InputsKey)
       THEN /\ db' = RecordInput(db, <<data>>)
            /\ Enter(p, "method")
            /\ arg' = [arg EXCEPT ![p] = data]
            /\ slog' = Append(slog, StoreEntry(data, db, nkeys))
            /\ idx' = [idx EXCEPT ![p] = Len(slog) + 1]
            /\ UNCHANGED out
       ELSE /\ Return(p, WrongType)
            /\ UNCHANGED <<db, slog>>
    /\ UNCHANGED <<nkeys, flog, since, dirty>>

\* Cache.store, undecorated, on database d when n keys have been generated:
\* the database it leaves and what it returns or raises.  redis-py raises
\* DataError for a value it cannot encode.
Store(d, n, data) ==
    LET key == Uuid4(n + 1) IN
    IF Encodable(data)
    THEN [db |-> RedisSet(d, key, Encode(data)), ret |-> PyStr(key)]
    ELSE [db |-> d, ret |-> Raise("DataError")]

\* faulty variant: the wrapper records an output in a finally clause, so
\* that a failed call is recorded too
MethodFailsRecorded(p, e) ==
    /\ Return(p, e)
    /\ slog' = SlogSet(p, "", "failed")
    /\ db' = RedisRpush(db, OutputsKey, Str(PyNone))

\* the method raises inside the wrapper: nothing catches the exception, the
\* lines after the call do not run
MethodFails(p, e) ==
    /\ Return(p, e)
    /\ slog' = SlogSet(p, "", "failed")
    /\ UNCHANGED db

\* output = method(*args, **kwargs)
StoreMethod(p) ==
    /\ pc[p] = "method"
    /\ nkeys' = nkeys + 1
    /\ LET r == Store(db, nkeys, arg[p]) IN
       IF r.ret.t # "raise"
       THEN /\ db' = r.db
            /\ out' = [out EXCEPT ![p] = r.ret]
            /\ Goto(p, "record")
            /\ slog' = SlogSet(p, r.ret.s, "stored")
            /\ UNCHANGED <<arg, idx>>
       ELSE MethodFails(p, r.ret)
    /\ UNCHANGED <<op, ncalls, flog, since, dirty>>

\* faulty variant: the wrapper forgets to return the output
WrapperReturnNone(output) == PyNone

\* what call_history.wrapper returns
WrapperReturn(output) == output

\* call_history.wrapper after the method returned: RPUSH of the output,
\* then return output
StoreRecord(p) ==
    /\ pc[p] = "record"
    /\ IF RpushOk(db, OutputsKey)
       THEN /\ db' = RecordOutput(db, out[p])
            /\ Return(p, WrapperReturn(out[p]))
            /\ slog' = SlogSet(p, out[p].s, "ok")
       ELSE /\ Return(p, WrongType)
            /\ UNCHANGED <<db, slog>>
    /\ UNCHANGED <<op, nkeys, ncalls, flog, since, dirty>>

\* Cache.get(key, fn) on database d.  fn: "none" (no converter),
\* "str" (get_str: decode utf-8), "int" (get_int: int)
Get(d, key, fn) ==
    LET data == RedisGet(d, key) IN
    IF data.t = "raise" THEN data
    ELSE IF data.t = "NoneType" THEN PyNone
    ELSE IF fn = "str" THEN Decode(data)
    ELSE IF fn = "int"
         THEN IF IsInt(data.s) THEN PyInt(ParseInt(data.s))
              ELSE Raise("ValueError")
    ELSE data

Converters == {"none", "str", "int"}

\* faulty variant: get is decorated with call_history too and pushes its
\* key on the inputs list
GetWritesRecorded(d, key) == RedisRpush(d, InputsKey, key)

\* the database a call of Cache.get leaves: its one round trip is a GET and
\* the method is not decorated, so nothing is written
GetWrites(d, key) == d

\* a call of Cache.get, get_str or get_int
GetCall(p, key, fn) ==
    /\ pc[p] = "idle"
    /\ op' = [op EXCEPT ![p] = "get"]
    /\ ret' = [ret EXCEPT ![p] = Get(db, key, fn)]
    /\ db' = GetWrites(db, key)
    /\ UNCHANGED <<pc, arg, out, idx, nkeys, ncalls,
                   slog, flog, since, dirty>>

-----------------------------------------------------------------------------
(* web.py *)

FlogRes(p, url, v) ==
    IF Logged(p) THEN [flog EXCEPT ![url][idx[p]].res = v] ELSE flog

\* cache_expiration.wrapper, first round trip: INCR count:{url}
FetchIncr(p, url) ==
    /\ pc[p] = "idle"
    /\ ncalls < MaxCalls
    /\ ncalls' = ncalls + 1
    /\ op' = [op EXCEPT ![p] = "fetch"]
    /\ IF IncrOk(db, CountKey(url))
       THEN /\ db' = RedisIncr(db, CountKey(url))
            /\ Enter(p, "get")
            /\ arg' = [arg EXCEPT ![p] = PyStr(url)]
            /\ idx' = [idx EXCEPT ![p] = Len(flog[url]) + 1]
            /\ flog' = [flog EXCEPT ![url] = Append(@, FetchEntry)]
            /\ dirty' = Disturb(url, CountKey(url))
            /\ UNCHANGED out
       ELSE /\ Return(p, WrongType)
            /\ flog' = [flog EXCEPT ![url] =
                  Append(@, [FetchEntry EXCEPT !.res = WrongType])]
            /\ UNCHANGED <<db, dirty>>
    /\ UNCHANGED <<nkeys, slog, since>>

\* the test `if cached_page:` on what GET returned
IsHit(cached_page) == Truthy(cached_page)

\* faulty variant: a hit renews the time-to-live of the entry
CacheHitRenews(d, url) == [d EXCEPT ![url].ttl = EXPIRATION]

\* the database a hit leaves: the wrapper returns the cached page at once,
\* its GET is the last command it issues
CacheHit(d, url) == d

\* second round trip: GET url; a hit returns the decoded page
FetchGet(p) ==
    /\ pc[p] = "get"
    /\ LET url == arg[p].s
           cached_page == RedisGet(db, url)
           seen == IF Logged(p)
                   THEN [flog EXCEPT ![url][idx[p]].since = since[url]]
                   ELSE flog
       IN
       IF cached_page.t = "raise"
       THEN /\ Return(p, cached_page)
            /\ flog' = IF Logged(p)
                       THEN [seen EXCEPT ![url][idx[p]].res = cached_page]
                       ELSE flog
            /\ UNCHANGED db
       ELSE IF IsHit(cached_page)
       THEN /\ Return(p, Decode(cached_page))
            /\ db' = CacheHit(db, url)
            /\ flog' = IF Logged(p)
                       THEN [seen EXCEPT ![url][idx[p]].res =
                                                      Decode(cached_page)]
                       ELSE flog
       ELSE /\ Goto(p, "func")
            /\ flog' = seen
            /\ UNCHANGED <<db, arg, out, idx>>
    /\ UNCHANGED <<op, nkeys, ncalls, slog, since, dirty>>

\* faulty variant: a failed fetch is cached as an empty page
FuncRaisesCached(d, url) == RedisSetex(d, url, EXPIRATION, "")

\* the database the wrapper leaves when func raises: nothing catches the
\* exception, the SETEX after the call does not run
FuncRaises(d, url) == d

\* third step: func(url), the decorated function (get_page or a stub),
\* returns some text or raises
FetchFunc(p, content, fails) ==
    /\ pc[p] = "func"
    /\ LET url == arg[p].s
           called == IF Logged(p)
                     THEN [flog EXCEPT ![url][idx[p]].stub = 1]
                     ELSE flog
       IN
       IF fails
       THEN /\ Return(p, Raise("RequestException"))
            /\ db' = FuncRaises(db, url)
            /\ flog' = IF Logged(p)
                       THEN [called EXCEPT ![url][idx[p]].res =
                                                  Raise("RequestException")]
                       ELSE flog
       ELSE /\ out' = [out EXCEPT ![p] = PyStr(content)]
            /\ Goto(p, "setex")
            /\ flog' = called
            /\ UNCHANGED <<db, arg, idx>>
    /\ UNCHANGED <<op, nkeys, ncalls, slog, since, dirty>>

\* faulty variant: the page is cached with SET, without an expiry
CachePageForever(d, url, page_content) ==
    RedisSet(d, url, Encode(page_content))

\* faulty variant: the page is cached only when the key is absent (first
\* write wins)
CachePageIfAbsent(d, url, page_content) ==
    IF d[url].kind = "none"
    THEN RedisSetex(d, url, EXPIRATION, Encode(page_content))
    ELSE d

\* the entry the wrapper caches for a page: SETEX url expiration content
CachePage(d, url, page_content) ==
    RedisSetex(d, url, EXPIRATION, Encode(page_content))

\* last round trip: SETEX, then return page_content
FetchSetex(p) ==
    /\ pc[p] = "setex"
    /\ LET url == arg[p].s IN
       /\ db' = CachePage(db, url, out[p])
       /\ since' = [since EXCEPT ![url] = 0]
       /\ dirty' = Disturb(url, url)
       /\ flog' = FlogRes(p, url, out[p])
    /\ Return(p, out[p])
    /\ UNCHANGED <<op, nkeys, ncalls, slog>>

-----------------------------------------------------------------------------
(* The Redis server's clock *)

Tick ==
    /\ db' = RedisTick(db, TickSeconds)
    /\ since' = Advance(since, TickSeconds)
    /\ UNCHANGED <<pc, arg, out, ret, op, idx, nkeys, ncalls,
                   slog, flog, dirty>>

-----------------------------------------------------------------------------

Next ==
    \/ \E p \in Callers : CacheInit(p)
    \/ \E p \in Callers, data \in Values : StoreBegin(p, data)
    \/ \E p \in Callers : StoreMethod(p)
    \/ \E p \in Callers : StoreRecord(p)
    \/ \E p \in Callers, key \in AllKeys, fn \in Converters :
          GetCall(p, key, fn)
    \/ \E p \in Callers, url \in URLS : FetchIncr(p, url)
    \/ \E p \in Callers : FetchGet(p)
    \/ \E p \in Callers, content \in Contents, fails \in BOOLEAN :
          FetchFunc(p, content, fails)
    \/ \E p \in Callers : FetchSetex(p)
    \/ Tick

Spec == Init /\ [][Next]_vars

\* Two clients run Cache.store and get_page at the same time on the one
\* database, their calls interleaved at the Redis round trips; no Cache is
\* constructed meanwhile.
NextConcurrent ==
    \/ \E p \in Clients, data \in Values : StoreBegin(p, data)
    \/ \E p \in Clients : StoreMethod(p)
    \/ \E p \in Clients : StoreRecord(p)
    \/ \E p \in Clients, url \in URLS : FetchIncr(p, url)
    \/ \E p \in Clients : FetchGet(p)
    \/ \E p \in Clients, content \in Contents, fails \in BOOLEAN :
          FetchFunc(p, content, fails)
    \/ \E p \in Clients : FetchSetex(p)
    \/ Tick

Concurrent == Init /\ [][NextConcurrent]_vars

-----------------------------------------------------------------------------
(* Properties *)

Inputs == RedisLrange(db, InputsKey)
Outputs == RedisLrange(db, OutputsKey)

Quiet == \A p \in Callers : pc[p] = "idle"

StoreCalls == DOMAIN slog
Done(i) == slog[i].st = "ok"
Open(i) == slog[i].st # "ok"

\* C1: round trip of Cache.store / Cache.get.  Every key a store call has
\* written (since the database was last flushed) yields, through get with
\* no converter, the byte serialization of the value that call was given,
\* however many store calls came later.
C1_RoundTrip ==
    \A i \in StoreCalls :
        slog[i].st \in {"stored", "ok"} =>
            Get(db, slog[i].key, "none") = PyBytes(Encode(slog[i].data))

\* C1 witness: two store calls have completed with different data, and the
\* key of the first still yields its bytes
C1_Witness ==
    /\ Len(slog) >= 2
    /\ Done(1) /\ Done(2)
    /\ slog[1].data = PyInt(42) /\ slog[2].data = PyStr("cat")
    /\ Get(db, slog[1].key, "none") = PyBytes("42")

\* the keys Cache.store has generated so far
Produced == {Uuid4(i) : i \in 1..nkeys}

\* C2: for every key never produced by store, get returns None, in every
\* state of the shared database in which get can be called.
C2_UnknownKeyAbsent ==
    Quiet => \A k \in AllKeys \ Produced : Get(db, k, "none") = PyNone

\* C3: after n calls of the recorded Cache.store, all of them successful
\* (none running, none failed), inputs and outputs both have length n, the
\* i-th input is the argument tuple of the i-th call and the i-th output is
\* the key that call returned, under which that call's data is stored.
C3_RecordedCalls ==
    (Quiet /\ \A i \in StoreCalls : Done(i)) =>
        /\ Len(Inputs) = Len(slog)
        /\ Len(Outputs) = Len(slog)
        /\ \A i \in StoreCalls :
              /\ Inputs[i] = TupleStr(<<slog[i].data>>)
              /\ Outputs[i] = slog[i].key
              /\ slog[i].key \in Produced
              /\ RedisGet(db, slog[i].key) = PyBytes(Encode(slog[i].data))

\* C3 witness: two successful calls, recorded in order
C3_Witness ==
    /\ Quiet
    /\ Len(slog) = 2 /\ Done(1) /\ Done(2)
    /\ Inputs = <<"('cat',)", "(42,)">>
    /\ Outputs = <<slog[1].key, slog[2].key>>

Corresponds(i) ==
    /\ Inputs[i] = TupleStr(<<slog[i].data>>)
    /\ Outputs[i] = slog[i].key

\* C4 as claimed: in every reachable state inputs and outputs have equal
\* length and correspond position by position.
C4_EqualLength ==
    /\ Len(Inputs) = Len(Outputs)
    /\ \A i \in 1..Len(Inputs) : i \in StoreCalls /\ Corresponds(i)

\* C4 amended: inputs holds one entry per call started and outputs one per
\* call that returned, so outputs is never the longer one and the lengths
\* are equal exactly when no call is running or has failed; while no call
\* has failed, position i of outputs is the key returned by the call whose
\* arguments are at position i of inputs.
C4_LengthsByOutcome ==
    /\ Len(Inputs) = Len(slog)
    /\ Len(Outputs) = Len(slog) - Cardinality({i \in StoreCalls : Open(i)})
    /\ Len(Outputs) <= Len(Inputs)
    /\ (\A i \in StoreCalls : slog[i].st # "failed") =>
           \A i \in 1..Len(Outputs) : Corresponds(i)

\* C4 witness: a call has failed and a later one succeeded; inputs is one
\* longer than outputs
C4_Witness ==
    /\ Quiet
    /\ Len(slog) = 2
    /\ slog[1].st = "failed" /\ Done(2)
    /\ Len(Inputs) = 2 /\ Len(Outputs) = 1

IsPrefix(a, b) == Len(a) <= Len(b) /\ \A i \in 1..Len(a) : a[i] = b[i]

\* C5 as claimed: over every step of the system, construction of a Cache
\* included, the previous inputs and outputs are prefixes of the new ones.
C5_AppendOnly ==
    [][IsPrefix(Inputs, Inputs') /\ IsPrefix(Outputs, Outputs')]_vars

\* C5 amended: over every step other than the construction of a Cache the
\* previous inputs and outputs are prefixes of the new ones; constructing a
\* Cache flushes the database and leaves both sequences empty.
C5_AppendOnlyUntilFlush ==
    [][IF \E p \in Clients : CacheInit(p)
       THEN Inputs' = <<>> /\ Outputs' = <<>>
       ELSE IsPrefix(Inputs, Inputs') /\ IsPrefix(Outputs, Outputs')]_vars

\* C5 witness: two calls are recorded and a get_page call has run since
C5_Witness ==
    /\ Len(Inputs) = 2 /\ Len(Outputs) = 2
    /\ op["a"] = "fetch" /\ pc["a"] = "idle"

LastStore == slog[Len(slog)]

\* the last Cache.store call of client p has just returned or raised
AfterStore(p) == pc[p] = "idle" /\ op[p] = "store" /\ Len(slog) > 0

\* C6: when the wrapped method fails, the caller gets the failure, the
\* input of the call is the one entry added to inputs, and outputs is what
\* it was before the call.
C6_FailedCall ==
    \A p \in Callers :
        (AfterStore(p) /\ LastStore.st = "failed") =>
            /\ ret[p] = Raise("DataError")
            /\ Inputs = Append(LastStore.ins, TupleStr(<<LastStore.data>>))
            /\ Outputs = LastStore.outs

\* C6 witness: a call has failed after a successful one
C6_Witness ==
    /\ AfterStore("a") /\ Len(slog) = 2
    /\ LastStore.st = "failed" /\ LastStore.data = PyNone
    /\ Len(Inputs) = 2 /\ Outputs = <<slog[1].key>>

\* C7: a recorded store(v) that succeeds returns the key the undecorated
\* store returns and leaves the data keys as the undecorated store leaves
\* them; besides, it appends one entry to inputs and one to outputs.
C7_Transparent ==
    \A p \in Callers :
        (AfterStore(p) /\ LastStore.st = "ok") =>
            LET plain == Store([k \in AllKeys |->
                                   IF k \in UuidKeys THEN LastStore.data0[k]
                                   ELSE NoEntry],
                               LastStore.n0, LastStore.data)
            IN
            /\ ret[p] = plain.ret
            /\ DataState(db) = DataState(plain.db)
            /\ Inputs = Append(LastStore.ins, TupleStr(<<LastStore.data>>))
            /\ Outputs = Append(LastStore.outs, plain.ret.s)

\* C7 witness: a second recorded call has returned its key
C7_Witness ==
    /\ AfterStore("a") /\ Len(slog) = 2
    /\ Done(1) /\ Done(2)
    /\ ret["a"] = PyStr(slog[2].key)
    /\ RedisGet(db, slog[2].key) = PyBytes("cat")

-----------------------------------------------------------------------------
(* Properties of the page cache *)

Calls(u) == DOMAIN flog[u]
Stubs(u) == Cardinality({i \in Calls(u) : flog[u][i].stub = 1})
Counter(u) == RedisGet(db, CountKey(u))
Returned(u, i) == flog[u][i].res.t = "str"

\* get_page(u) was called two or more times, starting on an empty cache,
\* every call after the first did its GET less than EXPIRATION seconds after
\* the page was stored, every call returned, and no call for another url
\* touched the keys of u
WithinTtl(u) ==
    /\ Quiet
    /\ ~dirty[u]
    /\ Len(flog[u]) >= 2
    /\ flog[u][1].since = -1
    /\ \A i \in Calls(u) : Returned(u, i)
    /\ \A i \in Calls(u) \ {1} : flog[u][i].since \in 0..(EXPIRATION - 1)

\* C8: for get_page(u) called two or more times within the time-to-live,
\* on an initially empty cache, func is invoked exactly once, every call
\* returns the same content and the access counter equals the number of
\* calls, whatever content func returns.
C8_OneFetchWithinTtl ==
    \A u \in URLS :
        WithinTtl(u) =>
            /\ Stubs(u) = 1
            /\ \A i \in Calls(u) : flog[u][i].res = flog[u][1].res
            /\ Counter(u) = PyBytes(IntStr(Len(flog[u])))

\* get_page(u) was called once on an empty cache and stored its page, and
\* was called a second time whose GET came EXPIRATION seconds or more after
\* the page was stored
CalledAgainLate(u) ==
    /\ ~dirty[u]
    /\ Len(flog[u]) = 2
    /\ flog[u][1].since = -1 /\ Returned(u, 1)
    /\ flog[u][2].since = EXPIRATION

\* C9: a call that comes when the time-to-live of the stored page has
\* elapsed is a miss: it goes on to invoke func, and once it has returned
\* func has been invoked twice and the page is stored again with a fresh
\* time-to-live.
C9_ExpiredIsRefetched ==
    \A u \in URLS :
        CalledAgainLate(u) =>
            /\ flog[u][2].res.t = "pending" =>
                  \E p \in Callers : pc[p] \in {"func", "setex"}
                                     /\ arg[p] = PyStr(u)
            /\ Returned(u, 2) =>
                  /\ Stubs(u) = 2
                  /\ since[u] = 0 =>
                        db[u] = StrEntry(flog[u][2].res.s, EXPIRATION)

\* C9 witness: the second, late call has returned a page and func ran twice
C9_Witness ==
    /\ CalledAgainLate("u1")
    /\ Returned("u1", 2) /\ flog["u1"][2].res = PyStr("7")
    /\ flog["u1"][1].res = PyStr("7")
    /\ Stubs("u1") = 2

\* C10: after any sequence of get_page calls the value under count:<url>
\* is the number of get_page(url) calls started (since the last flush).
C10_CounterIsCalls ==
    \A u \in URLS :
        Counter(u) = IF Len(flog[u]) = 0 THEN PyNone
                     ELSE PyBytes(IntStr(Len(flog[u])))

\* the number the key count:<u> stands for in database d: its integer, or 0
\* when the key is absent or holds no integer
CounterValue(d, u) ==
    IF d[CountKey(u)].kind = "string" /\ IsInt(d[CountKey(u)].str)
    THEN ParseInt(d[CountKey(u)].str)
    ELSE 0

\* C11: the access counter of a url never decreases: no step of the system
\* (a step of get_page, the expiry of a page, Cache.store, Cache.get, the
\* construction of a Cache) leaves under count:<url> a value smaller than
\* the one it found.
C11_CounterMonotone ==
    [][\A u \in URLS : CounterValue(db', u) >= CounterValue(db, u)]_vars

\* client p is inside get_page(u), between its GET and the return of func
InFunc(p, u) == pc[p] = "func" /\ arg[p] = PyStr(u)

\* C12: when func raises inside get_page(url), the caller gets the
\* exception and the call is over (func was invoked once, there is no
\* retry), nothing is written under the key url (nor anywhere else), and a
\* GET of url is a miss as it was for this call.
C12_FailedFetch ==
    [][\A p \in Clients, u \in URLS :
          (InFunc(p, u) /\ ret'[p].t = "raise") =>
              /\ ret'[p] = Raise("RequestException")
              /\ pc'[p] = "idle"
              /\ db' = db
              /\ ~IsHit(RedisGet(db', u))
              /\ Stubs(u)' = Stubs(u) + 1
              /\ flog[u][idx[p]].stub = 0 /\ flog'[u][idx[p]].stub = 1]_vars

\* C12 witness: get_page("u1") has failed on an empty cache: counted, func
\* invoked, nothing cached
C12_Witness ==
    /\ pc["a"] = "idle" /\ op["a"] = "fetch"
    /\ ret["a"] = Raise("RequestException")
    /\ Len(flog["u1"]) = 2
    /\ flog["u1"][1].res = PyStr("7")
    /\ flog["u1"][2].res = Raise("RequestException")
    /\ flog["u1"][2].stub = 1 /\ flog["u1"][2].since = EXPIRATION
    /\ db["u1"] = NoEntry
    /\ Counter("u1") = PyBytes("2")

\* C14: constructing a Cache flushes the whole database: when Cache() has
\* returned (and until the client's next call) every key is absent, the data
\* keys of earlier instances, both recorded sequences, the cached pages and
\* the access counters.
C14_ConstructionFlushes ==
    \A p \in Callers :
        op[p] = "init" =>
            /\ \A k \in AllKeys : db[k] = NoEntry /\ RedisGet(db, k) = PyNone
            /\ Inputs = <<>> /\ Outputs = <<>>
            /\ \A u \in URLS : CounterValue(db, u) = 0

\* C14 witness: a Cache has been constructed after a store call generated
\* a key and two other calls were made
C14_Witness ==
    /\ op["a"] = "init" /\ pc["a"] = "idle"
    /\ nkeys = 1 /\ ncalls = 3
    /\ db = EmptyDb

\* what the converter fn makes of the bytes b: the bytes themselves when no
\* converter is supplied, the decoded text for get_str, the integer for
\* get_int, which fails on bytes that are no decimal number
Converted(b, fn) ==
    CASE fn = "none" -> PyBytes(b)
      [] fn = "str" -> PyStr(b)
      [] fn = "int" -> IF \E n \in (0 - MaxInt)..MaxInt : IntStr(n) = b
                       THEN PyInt(CHOOSE n \in (0 - MaxInt)..MaxInt :
                                     IntStr(n) = b)
                       ELSE Raise("ValueError")

\* C15: Cache.get(key, fn) returns None for an absent key, fn(bytes) for a
\* present key when a converter is supplied and the raw bytes otherwise; a
\* converter failure is raised to the caller; in every case the database is
\* left unchanged.
C15_GetContract ==
    [][\A p \in Clients, key \in AllKeys, fn \in Converters :
          GetCall(p, key, fn) =>
              /\ db' = db
              /\ ret'[p] = IF db[key].kind = "none" THEN PyNone
                           ELSE Converted(db[key].str, fn)]_vars

\* C16: inside a recorded call the input is appended before the method
\* runs and the output after it has completed: in every reachable state a
\* data key that exists was written by a call whose input is already in
\* the inputs sequence, every key in the outputs sequence has been written,
\* and outputs is never longer than inputs.
C16_InputFirstOutputLast ==
    /\ \A k \in UuidKeys :
          db[k].kind # "none" =>
              \E i \in StoreCalls :
                  /\ slog[i].key = k
                  /\ i <= Len(Inputs)
                  /\ Inputs[i] = TupleStr(<<slog[i].data>>)
    /\ \A j \in 1..Len(Outputs) :
          \E k \in UuidKeys : Outputs[j] = k /\ db[k].kind = "string"
    /\ Len(Outputs) <= Len(Inputs)

\* C16 witness: a second call has written its data key and has not yet
\* appended its output
C16_Witness ==
    /\ pc["a"] = "record"
    /\ Len(slog) = 2 /\ slog[2].st = "stored"
    /\ db[slog[2].key] = StrEntry("cat", -1)
    /\ Inputs = <<"(42,)", "('cat',)">>
    /\ Outputs = <<slog[1].key>>

\* C17: Cache.get, get_str and get_int are read-only and unrecorded: a call
\* of any of them leaves every key of the database as it was and appends
\* nothing to the inputs or the outputs sequence.
C17_GetReadOnly ==
    [][\A p \in Clients :
          (op'[p] = "get" /\ (op[p] # "get" \/ ret'[p] # ret[p])) =>
              /\ \A k \in AllKeys : db'[k] = db[k]
              /\ Inputs' = Inputs /\ Outputs' = Outputs]_vars

\* C17 witness: get_int has returned the integer stored by the one recorded
\* call; both sequences still hold that call only
C17_Witness ==
    /\ op["a"] = "get" /\ ret["a"] = PyInt(42)
    /\ Len(slog) = 1 /\ Done(1)
    /\ Inputs = <<"(42,)">> /\ Outputs = <<slog[1].key>>
    /\ db[slog[1].key] = StrEntry("42", -1)

\* C19: what get_page(u) returns is content that func returned for u, in
\* this call or in an earlier call of get_page(u); never a value written
\* under a key by something else (an access counter, a data key of
\* Cache.store, the page of another url).
C19_OwnContentOnly ==
    \A u \in URLS :
        \A i \in Calls(u) :
            Returned(u, i) =>
                \E j \in 1..i : /\ flog[u][j].stub = 1
                                /\ flog[u][j].res = flog[u][i].res

\* C20: a hit never extends the lifetime of an entry; only the SETEX of a
\* miss writes it.  The time-to-live left on the page of u is EXPIRATION
\* less the seconds since the last SETEX, however many hits came since, the
\* entry is gone once EXPIRATION seconds have passed, and every call whose
\* GET comes then invokes func again.
C20_HitKeepsExpiry ==
    \A u \in URLS :
        ~dirty[u] =>
            /\ since[u] \in 0..(EXPIRATION - 1) =>
                  db[u].kind = "string" /\ db[u].ttl = EXPIRATION - since[u]
            /\ since[u] \in {-1, EXPIRATION} => db[u] = NoEntry
            /\ \A i \in Calls(u) :
                  flog[u][i].since = EXPIRATION =>
                      IF flog[u][i].res.t = "pending"
                      THEN \E p \in Callers : pc[p] \in {"func", "setex"}
                                               /\ arg[p] = PyStr(u)
                      ELSE flog[u][i].stub = 1

\* C20 witness: a miss stored the page, a hit came within the time-to-live,
\* and the call made when the time-to-live had elapsed invoked func again
C20_Witness ==
    /\ ~dirty["u1"] /\ Len(flog["u1"]) = 3
    /\ flog["u1"][1].since = -1 /\ flog["u1"][1].stub = 1
    /\ flog["u1"][2].since \in 1..(EXPIRATION - 1)
    /\ flog["u1"][2].stub = 0 /\ flog["u1"][2].res = PyStr("7")
    /\ flog["u1"][3].since = EXPIRATION /\ flog["u1"][3].stub = 1
    /\ Returned("u1", 3)

-----------------------------------------------------------------------------
(* Properties of concurrent callers *)

QuietAll == \A p \in Clients : pc[p] = "idle"

\* no client is inside a call of get_page(u)
NoneInside(u) ==
    \A p \in Clients : ~(op[p] = "fetch" /\ pc[p] # "idle" /\ arg[p] = PyStr(u))

\* every call of get_page(u) is counted and every call that returned
\* returned what func gave it or what another call of get_page(u) got from
\* func and cached
CountedAndFetched(u) ==
    (~dirty[u] /\ NoneInside(u) /\ Len(flog[u]) > 0) =>
        /\ Counter(u) = PyBytes(IntStr(Len(flog[u])))
        /\ \A i \in Calls(u) :
              Returned(u, i) =>
                  \/ flog[u][i].stub = 1
                  \/ \E j \in Calls(u) \ {i} :
                        /\ flog[u][j].stub = 1
                        /\ flog[u][j].res = flog[u][i].res

\* the SETEX of a call leaves under the url the content that call fetched,
\* with a fresh time-to-live, whatever was there
LastWriteWins ==
    \A p \in Clients, u \in URLS :
        (pc[p] = "setex" /\ arg[p] = PyStr(u) /\ pc'[p] = "idle") =>
            /\ db'[u] = StrEntry(out[p].s, EXPIRATION)
            /\ ret'[p] = out[p]

\* C13: concurrent callers of get_page for one url, interleaved at INCR,
\* GET, func and SETEX, may both miss and both invoke func; even so the
\* counter grows by one per call (by 2 for two calls), the cached entry is
\* the content of the SETEX that ran last, and every caller returns content
\* that func returned for the url, to it or to the caller that cached it.
C13_RaceIsBenign ==
    [][LastWriteWins /\ \A u \in URLS : CountedAndFetched(u)']_vars

\* C13 witness: two callers of get_page("u1") both did their GET before any
\* SETEX, both invoked func and both stored; the counter is 2
C13_Witness ==
    /\ QuietAll /\ ~dirty["u1"]
    /\ Len(flog["u1"]) = 2
    /\ flog["u1"][1].since = -1 /\ flog["u1"][2].since = -1
    /\ flog["u1"][1].stub = 1 /\ flog["u1"][2].stub = 1
    /\ flog["u1"][1].res = PyStr("7") /\ flog["u1"][2].res = PyStr("7")
    /\ db["u1"] = StrEntry("7", EXPIRATION)
    /\ Counter("u1") = PyBytes("2")

\* C18: with two callers running the recorded Cache.store at the same time,
\* once the calls have completed (all of them successfully) position i of
\* outputs is the key produced by the call that wrote position i of inputs.
C18_ConcurrentAligned ==
    (QuietAll /\ \A i \in StoreCalls : Done(i)) =>
        /\ Len(Inputs) = Len(slog) /\ Len(Outputs) = Len(slog)
        /\ \A i \in StoreCalls : Corresponds(i)

====
